---- MODULE Spec2Model ----
(***************************************************************************)
(* Model of qrenderdoc's ResourceInspector (Windows/ResourceInspector.cpp): *)
(* the inspected resource, the three display widgets (related resources,    *)
(* initialisation chunks, resource usage) and the asynchronous usage fetch  *)
(* issued by Inspect (AsyncInvoke on the replay thread, then GUIInvoke::call*)
(* back on the UI thread, which appends the combined usage ranges).         *)
(***************************************************************************)
EXTENDS Integers, Sequences, FiniteSets, TLC

\* ---------------------------------------------------------------- bounds
MaxFetches == 2      \* usage fetches issued in one behaviour
MaxLen == 4          \* length of an enumerated usage list
MaxEID == 3          \* event ids 1..MaxEID in the enumerated usage lists

\* ------------------------------------------------------------- constants
NoResource == 0      \* ResourceId(): the default id, "no resource"
NumChunks == 3       \* file.chunks.size() of the structured file

ResourceIds == 0 .. 3
Kinds == {"Read", "Write"}

\* The resource catalog of the loaded capture (m_Ctx.GetResources()):
\* ids 1 and 2 have a ResourceDescription, id 3 has none.
Catalog ==
  [ r \in {1, 2} |->
      IF r = 1
        THEN [parentResources |-> << >>, derivedResources |-> <<2, 3>>,
              initialisationChunks |-> <<0, 7>>]
        ELSE [parentResources |-> <<1>>, derivedResources |-> <<3>>,
              initialisationChunks |-> <<1, NumChunks>>] ]

NoDesc == [parentResources |-> << >>, derivedResources |-> << >>,
           initialisationChunks |-> << >>]

\* ------------------------------------------------------------ usage lists
EventUsage == [eventID : 1 .. MaxEID, usage : Kinds]

IsOrdered(s) == \A i \in 1 .. Len(s) - 1 : s[i].eventID <= s[i + 1].eventID

Scenario1 ==
  << [eventID |-> 10, usage |-> "Read"], [eventID |-> 12, usage |-> "Read"],
     [eventID |-> 15, usage |-> "Write"], [eventID |-> 20, usage |-> "Write"],
     [eventID |-> 21, usage |-> "Read"] >>

\* the usage lists a capture can hold for a resource: ordered by eventID,
\* duplicates allowed
UsageLists ==
  { s \in UNION { [1 .. n -> EventUsage] : n \in 0 .. MaxLen } : IsOrdered(s) }
    \cup {Scenario1}

\* the usage lists of the captures Spec loads: no event, one range, two ranges
SessionLists == { << >>, SubSeq(Scenario1, 1, 1), SubSeq(Scenario1, 2, 4) }

VARIABLES
  capUsage,          \* the capture file: the usage list of each resource in it
  loaded,            \* a capture is loaded in m_Ctx
  m_Resource,        \* ResourceInspector::m_Resource
  relatedResources,  \* top-level items of ui->relatedResources
  initChunks,        \* top-level items of ui->initChunks
  resourceUsage,     \* top-level items of ui->resourceUsage
  replayQueue,       \* AsyncInvoke'd lambdas not yet run by the replay thread
  guiQueue,          \* GUIInvoke::call'ed lambdas not yet run by the UI thread
  issued,            \* history: number of usage fetches issued so far
  shown,             \* history: completions run since the last clear() of resourceUsage
  idle,              \* history: how the last Inspect or close left "no resource"
  lastOp             \* history: the step taken last, with m_Resource before it

vars == << capUsage, loaded, m_Resource, relatedResources, initChunks, resourceUsage,
           replayQueue, guiQueue, issued, shown, idle, lastOp >>

\* ----------------------------------------------------- external collaborators
\* m_Ctx.GetResource(id): the description of id, or NULL when the catalog of
\* the loaded capture has none.
HasResource(id) == loaded /\ id \in DOMAIN Catalog

GetResource(id) == IF HasResource(id) THEN Catalog[id] ELSE NoDesc

\* r->GetUsage(id): the usage list of id in the loaded capture; nothing for
\* an id the capture does not know, nothing once the capture is closed.
GetUsage(id) == IF loaded /\ id \in DOMAIN capUsage THEN capUsage[id] ELSE << >>

\* CombineUsageEvents(ctx, usage, callback): the sequence of
\* (startEID, endEID, use) triples the callback is called with. Walks the
\* list once with an open range; an event of the open range's kind extends
\* it, any other event closes it and opens a new one.
RECURSIVE CombineFrom(_, _, _, _, _)
CombineFrom(usage, i, start, end, us) ==
  IF i > Len(usage)
    THEN << <<start, end, us>> >>
    ELSE IF usage[i].usage = us
      THEN CombineFrom(usage, i + 1, start, usage[i].eventID, us)
      ELSE << <<start, end, us>> >>
             \o CombineFrom(usage, i + 1, usage[i].eventID, usage[i].eventID,
                            usage[i].usage)

CombineUsageEvents(usage) ==
  IF usage = << >>
    THEN << >>
    ELSE CombineFrom(usage, 2, usage[1].eventID, usage[1].eventID, usage[1].usage)

\* ------------------------------------------------------------- Inspect()
\* mutant: the early return is never taken
NeverSameResource(cur, id) == FALSE

\* if(m_Resource == id) return;
SameResource(cur, id) == cur = id

\* mutant: the two numbers of the text are swapped
UsageTextSwapped(startEID, endEID) ==
  IF startEID = endEID THEN <<startEID>> ELSE <<endEID, startEID>>

\* QFormatStr("EID %1") / QFormatStr("EID %1-%2"): the numbers in the text
UsageText(startEID, endEID) ==
  IF startEID = endEID THEN <<startEID>> ELSE <<startEID, endEID>>

\* mutant: the item's data is the start of the range
UsageItemDataStart(startEID, endEID, use) ==
  [text |-> UsageText(startEID, endEID), use |-> use, data |-> startEID]

\* mutant: the item's usage column does not come from the range's kind
UsageItemKindLost(startEID, endEID, use) ==
  [text |-> UsageText(startEID, endEID), use |-> "Read", data |-> endEID]

\* the item the CombineUsageEvents callback builds for one range
UsageItem(startEID, endEID, use) ==
  [text |-> UsageText(startEID, endEID), use |-> use, data |-> endEID]

\* mutant: each item is inserted at the top of the tree
AddUsageItemsReversed(tree, ranges) ==
  [i \in 1 .. Len(ranges) |->
     UsageItem(ranges[Len(ranges) + 1 - i][1], ranges[Len(ranges) + 1 - i][2],
               ranges[Len(ranges) + 1 - i][3])] \o tree

\* ui->resourceUsage->addTopLevelItem(item), once per callback call, in order
AddUsageItems(tree, ranges) ==
  tree \o [i \in 1 .. Len(ranges) |->
             UsageItem(ranges[i][1], ranges[i][2], ranges[i][3])]

\* mutant: the usage tree is not cleared
KeepUsage(tree) == tree

\* ui->resourceUsage->clear()
ClearUsage(tree) == << >>

\* mutant: the Derived loop runs before the Parent loop
RelatedItemsDerivedFirst(desc) ==
  [i \in 1 .. Len(desc.derivedResources) |->
     [type |-> "Derived", id |-> desc.derivedResources[i]]]
  \o [i \in 1 .. Len(desc.parentResources) |->
        [type |-> "Parent", id |-> desc.parentResources[i]]]

\* ui->relatedResources->clear() followed by the Parent and Derived loops
RelatedItems(desc) ==
  [i \in 1 .. Len(desc.parentResources) |->
     [type |-> "Parent", id |-> desc.parentResources[i]]]
  \o [i \in 1 .. Len(desc.derivedResources) |->
        [type |-> "Derived", id |-> desc.derivedResources[i]]]

\* mutant: the check admits the index one past the end of the table
ChunkItemOffByOne(chunk) ==
  IF chunk <= NumChunks
    THEN [valid |-> TRUE, chunk |-> chunk]
    ELSE [valid |-> FALSE, chunk |-> chunk]

\* one root item per initialisation chunk: the chunk (valid: its name and
\* children are read from file.chunks[chunk]), or the "Invalid chunk index"
\* placeholder (nothing is read from file.chunks)
ChunkItem(chunk) ==
  IF chunk < NumChunks
    THEN [valid |-> TRUE, chunk |-> chunk]
    ELSE [valid |-> FALSE, chunk |-> chunk]

ChunkItems(desc) ==
  [i \in 1 .. Len(desc.initialisationChunks) |->
     ChunkItem(desc.initialisationChunks[i])]

\* mutant: the else branch does not reset m_Resource
ResourceAfterInspectKept(id) == id

\* m_Resource when Inspect returns: id, or ResourceId() in the else branch
ResourceAfterInspect(id) == IF HasResource(id) THEN id ELSE NoResource

\* mutant: no fetch is issued
AsyncInvokeDropped(queue, no, id) == queue

\* mutant: the fetch is issued inside if(desc)
AsyncInvokeIfDescribed(queue, no, id) ==
  IF HasResource(id) THEN queue \cup { [no |-> no, id |-> id] } ELSE queue

\* m_Ctx.Replay().AsyncInvoke(...): the lambda captures id by value
AsyncInvoke(queue, no, id) == queue \cup { [no |-> no, id |-> id] }

\* mutant: the position change re-inspects "no resource"
InspectedOnEventChangedNone(cur, eventID) == NoResource

\* the argument of the Inspect call in OnEventChanged(eventID)
InspectedOnEventChanged(cur, eventID) == cur

\* The body of Inspect(id), entered with m_Resource = cur.
InspectBody(cur, id) ==
  IF SameResource(cur, id)
    THEN /\ m_Resource' = cur
         /\ UNCHANGED << relatedResources, initChunks, resourceUsage,
                         replayQueue, issued, shown >>
    ELSE /\ issued < MaxFetches
         /\ m_Resource' = ResourceAfterInspect(id)
         /\ initChunks' = ChunkItems(GetResource(id))
         /\ relatedResources' = RelatedItems(GetResource(id))
         /\ resourceUsage' = ClearUsage(resourceUsage)
         /\ shown' = << >>
         /\ issued' = issued + 1
         /\ replayQueue' = AsyncInvoke(replayQueue, issued + 1, id)

InitSession ==
  /\ loaded = FALSE
  /\ m_Resource = NoResource
  /\ relatedResources = << >>
  /\ initChunks = << >>
  /\ resourceUsage = << >>
  /\ replayQueue = { }
  /\ guiQueue = { }
  /\ issued = 0
  /\ shown = << >>
  /\ idle = "None"
  /\ lastOp = [op |-> "Init", id |-> NoResource, was |-> NoResource]

Init ==
  /\ capUsage \in [DOMAIN Catalog -> SessionLists]
  /\ InitSession

\* every enumerated usage list, the same for each resource of the capture
InitCoalesce ==
  /\ capUsage \in { [r \in DOMAIN Catalog |-> u] : u \in UsageLists }
  /\ InitSession

\* Inspect(id), also reached from resource_doubleClicked
Inspect(id) ==
  /\ InspectBody(m_Resource, id)
  /\ idle' = IF id # NoResource /\ id # m_Resource /\ ~HasResource(id)
               THEN "NotFound" ELSE "None"
  /\ lastOp' = [op |-> "Inspect", id |-> id, was |-> m_Resource]
  /\ UNCHANGED << capUsage, loaded, guiQueue >>

\* mutant: the CombineUsageEvents callback runs on the replay thread
UsageAfterReplayInvokeDirect(tree, usage) ==
  AddUsageItems(tree, CombineUsageEvents(usage))

\* ui->resourceUsage when the replay-thread lambda returns: the lambda only
\* calls GetUsage and GUIInvoke::call
UsageAfterReplayInvoke(tree, usage) == tree

\* the replay thread runs one AsyncInvoke'd lambda: GetUsage, then
\* GUIInvoke::call with the usage captured by value
ReplayInvoke(job) ==
  /\ job \in replayQueue
  /\ resourceUsage' = UsageAfterReplayInvoke(resourceUsage, GetUsage(job.id))
  /\ guiQueue' = guiQueue \cup { [no |-> job.no, id |-> job.id,
                                    usage |-> GetUsage(job.id)] }
  /\ replayQueue' = replayQueue \ {job}
  /\ lastOp' = [op |-> "ReplayInvoke", id |-> job.id, was |-> m_Resource]
  /\ UNCHANGED << capUsage, loaded, m_Resource, relatedResources, initChunks,
                  issued, shown, idle >>

\* the UI thread runs one GUIInvoke'd lambda: CombineUsageEvents with the
\* callback that adds one item per range
GUIInvoke(call) ==
  /\ call \in guiQueue
  /\ resourceUsage' = AddUsageItems(resourceUsage, CombineUsageEvents(call.usage))
  /\ shown' = Append(shown, call)
  /\ guiQueue' = guiQueue \ {call}
  /\ lastOp' = [op |-> "GUIInvoke", id |-> call.id, was |-> m_Resource]
  /\ UNCHANGED << capUsage, loaded, m_Resource, relatedResources, initChunks,
                  replayQueue, issued, idle >>

OnLogfileLoaded ==
  /\ ~loaded
  /\ loaded' = TRUE
  /\ lastOp' = [op |-> "OnLogfileLoaded", id |-> NoResource, was |-> m_Resource]
  /\ UNCHANGED << capUsage, m_Resource, relatedResources, initChunks,
                  resourceUsage, replayQueue, guiQueue, issued, shown, idle >>

OnLogfileClosed ==
  /\ loaded
  /\ loaded' = FALSE
  /\ initChunks' = << >>
  /\ relatedResources' = << >>
  /\ resourceUsage' = ClearUsage(resourceUsage)
  /\ shown' = << >>
  /\ m_Resource' = NoResource
  /\ idle' = "Closed"
  /\ lastOp' = [op |-> "OnLogfileClosed", id |-> NoResource, was |-> m_Resource]
  /\ UNCHANGED << capUsage, replayQueue, guiQueue, issued >>

\* the item of ui->resourceUsage that is current after OnEventChanged(eventID),
\* 0 for none: eventID is not used and no item is made current
ActiveUsageItem(tree, eventID) == 0

\* OnEventChanged(eventID): Inspect(m_Resource), then the list model is reset
OnEventChanged(eventID) ==
  /\ InspectBody(m_Resource, InspectedOnEventChanged(m_Resource, eventID))
  /\ lastOp' = [op |-> "OnEventChanged", id |-> eventID, was |-> m_Resource]
  /\ UNCHANGED << capUsage, loaded, guiQueue, idle >>

\* on_resetName_clicked(): the custom name is dropped, then
\* m_Resource = ResourceId(); Inspect(id) with id the resource that was
\* inspected. The button is shown by a rename, which a loaded capture enables.
on_resetName_clicked ==
  /\ loaded
  /\ InspectBody(NoResource, m_Resource)
  /\ idle' = IF m_Resource # NoResource /\ ~HasResource(m_Resource)
               THEN "NotFound" ELSE "None"
  /\ lastOp' = [op |-> "on_resetName_clicked", id |-> m_Resource, was |-> m_Resource]
  /\ UNCHANGED << capUsage, loaded, guiQueue >>

\* the positions OnEventChanged is called with: the enumerated event ids and
\* an event id inside a range of Scenario1
EventPositions == (1 .. MaxEID) \cup {18}

\* the ids Inspect is called with: ResourceId() by the constructor, and the
\* ids other windows and the resource lists hand over while a capture is
\* loaded (an id need not be in the catalog)
Inspectable == IF loaded THEN ResourceIds ELSE {NoResource}

Next ==
  \/ \E id \in Inspectable : Inspect(id)
  \/ \E job \in replayQueue : ReplayInvoke(job)
  \/ \E call \in guiQueue : GUIInvoke(call)
  \/ OnLogfileLoaded
  \/ OnLogfileClosed
  \/ \E eventID \in EventPositions : OnEventChanged(eventID)
  \/ on_resetName_clicked

Spec == Init /\ [][Next]_vars

\* The same operations on a capture holding any enumerated usage list, up to
\* the completion of the first fetch.
NextCoalesce ==
  \/ \E id \in Inspectable : issued = 0 /\ Inspect(id)
  \/ \E job \in replayQueue : ReplayInvoke(job)
  \/ \E call \in guiQueue : GUIInvoke(call)
  \/ OnLogfileLoaded
  \/ OnLogfileClosed
  \/ \E eventID \in EventPositions : OnEventChanged(eventID)

SpecCoalesce == InitCoalesce /\ [][NextCoalesce]_vars

\* ======================================================================
\* Properties
\* ======================================================================

\* the items a single fetch of usage list u puts in an empty usage tree
ItemsOf(u) == AddUsageItems(<< >>, CombineUsageEvents(u))

\* the (start, end, kind) of a displayed item: the first number of its text,
\* its data, its kind
RangeOfItem(item) == [start |-> item.text[1], end |-> item.data, use |-> item.use]

DisplayedRanges == [i \in 1 .. Len(resourceUsage) |-> RangeOfItem(resourceUsage[i])]

\* ---------------------------------------------------------------- C1
\* C1 (stale result): when the completion of an earlier fetch (resource A) runs
\* after the completion of the latest fetch (resource B # A, still inspected),
\* the displayed usage is the combined usage of B only.
C1_StaleResultNotDisplayed ==
  \A i, j \in 1 .. Len(shown) :
    ( /\ i < j
      /\ shown[j].no < shown[i].no
      /\ shown[j].id # shown[i].id
      /\ shown[j].id # NoResource
      /\ shown[i].no = issued
      /\ shown[i].id = m_Resource )
    => resourceUsage = ItemsOf(shown[i].usage)

\* ---------------------------------------------------------------- C2
\* C2 (last request wins): every completion that put ranges in the displayed
\* usage belongs to the fetch issued for the currently inspected resource,
\* the latest fetch.
C2_DisplayedFromCurrentFetch ==
  \A i \in 1 .. Len(shown) :
    CombineUsageEvents(shown[i].usage) # << >>
      => (shown[i].no = issued /\ shown[i].id = m_Resource)

\* ---------------------------------------------------------------- C3
\* C3 (close mid-fetch): from OnLogfileClosed until the next Inspect the
\* usage tree stays empty and m_Resource stays "no resource", whatever
\* completions arrive.
C3_ClosedStaysEmpty ==
  idle = "Closed" => (resourceUsage = << >> /\ m_Resource = NoResource)

\* ---------------------------------------------------------------- C4
\* C4 (close resets): right after OnLogfileClosed, m_Resource is "no
\* resource" and the related, initialisation and usage trees are empty.
C4_CloseResets ==
  lastOp.op = "OnLogfileClosed"
    => /\ m_Resource = NoResource
       /\ relatedResources = << >>
       /\ initChunks = << >>
       /\ resourceUsage = << >>

\* a close that found a resource inspected, with fetches still pending
C4_Witness ==
  /\ lastOp.op = "OnLogfileClosed"
  /\ lastOp.was # NoResource
  /\ guiQueue # { }

\* ---------------------------------------------------------------- C5
\* C5 (same id is a no-op): an Inspect(id) step with id = m_Resource changes
\* neither m_Resource, nor the three trees, nor the pending fetches, and
\* issues no fetch.
C5_InspectSameIsNoOp ==
  [][ (lastOp'.op = "Inspect" /\ lastOp'.id = m_Resource)
        => UNCHANGED << m_Resource, relatedResources, initChunks,
                        resourceUsage, replayQueue, guiQueue, issued >> ]_vars

\* Inspect of the inspected resource while its usage is displayed
C5_Witness ==
  /\ lastOp.op = "Inspect"
  /\ lastOp.id = lastOp.was
  /\ lastOp.id # NoResource
  /\ resourceUsage # << >>
  /\ relatedResources # << >>
\* ---------------------------------------------------------------- C6
\* C6 (new id): an Inspect(id) step with id # m_Resource and id in the
\* catalog makes id the inspected resource, leaves the usage tree empty and
\* the related tree holding id's parents and derived resources only, and adds
\* exactly one fetch for id to the replay queue; no completion runs in it.
C6_InspectNewResource ==
  [][ (lastOp'.op = "Inspect" /\ lastOp'.id # m_Resource /\ HasResource(lastOp'.id))
        => /\ m_Resource' = lastOp'.id
           /\ resourceUsage' = << >>
           /\ relatedResources' = RelatedItems(Catalog[lastOp'.id])
           /\ replayQueue \subseteq replayQueue'
           /\ replayQueue' \ replayQueue = { [no |-> issued', id |-> lastOp'.id] }
           /\ issued' = issued + 1
           /\ guiQueue' = guiQueue ]_vars

\* Inspect of another catalogued resource while one is inspected and a
\* completion is pending
C6_Witness ==
  /\ lastOp.op = "Inspect"
  /\ lastOp.was # NoResource
  /\ lastOp.id # lastOp.was
  /\ m_Resource = lastOp.id
  /\ guiQueue # { }

\* ---------------------------------------------------------------- C7
\* C7 (position change): an OnEventChanged step issues no fetch and changes
\* neither m_Resource nor the usage tree.
C7_EventChangedKeepsDisplay ==
  [][ lastOp'.op = "OnEventChanged"
        => UNCHANGED << m_Resource, resourceUsage, replayQueue, guiQueue, issued >> ]_vars

\* a position change while a resource is inspected and its usage displayed
C7_Witness ==
  /\ lastOp.op = "OnEventChanged"
  /\ m_Resource # NoResource
  /\ resourceUsage # << >>

\* ---------------------------------------------------------------- C8
\* C8 (not found): from an Inspect of an id without a description until the
\* next Inspect or close, m_Resource is "no resource" and the related,
\* initialisation and usage trees are empty.
C8_NotFoundStaysEmpty ==
  idle = "NotFound"
    => /\ m_Resource = NoResource
       /\ relatedResources = << >>
       /\ initChunks = << >>
       /\ resourceUsage = << >>

\* ---------------------------------------------------------------- C9
\* the usage list the displayed ranges of SpecCoalesce were combined from
CoalescedInput == IF shown = << >> THEN << >> ELSE shown[1].usage

\* no two events of different kinds share an event id
NoMixedDuplicates(u) ==
  \A a, b \in 1 .. Len(u) : u[a].eventID = u[b].eventID => u[a].usage = u[b].usage

\* C9 as claimed: the displayed ranges have start <= end, strictly increasing
\* starts and do not overlap pairwise, for every ordered input.
C9_StrictlyOrderedDisjoint ==
  LET R == DisplayedRanges IN
    /\ \A i \in 1 .. Len(R) : R[i].start <= R[i].end
    /\ \A i, j \in 1 .. Len(R) :
         i < j => (R[i].start < R[j].start /\ R[i].end < R[j].start)

\* C9 amended: the displayed ranges have start <= end, non-decreasing starts,
\* and each range ends no later than every later range starts; starts are
\* strictly increasing and ranges pairwise disjoint when no two events of
\* different kinds share an event id.
C9_OrderedTouchingAtMost ==
  LET R == DisplayedRanges IN
    /\ \A i \in 1 .. Len(R) : R[i].start <= R[i].end
    /\ \A i, j \in 1 .. Len(R) :
         i < j => (R[i].start <= R[j].start /\ R[i].end <= R[j].start)
    /\ NoMixedDuplicates(CoalescedInput)
         => \A i, j \in 1 .. Len(R) :
              i < j => (R[i].start < R[j].start /\ R[i].end < R[j].start)

\* three ranges displayed, two of them meeting at one event id
C9_Witness ==
  /\ shown # << >>
  /\ Len(resourceUsage) >= 3
  /\ \E i \in 1 .. Len(resourceUsage) - 1 :
       DisplayedRanges[i].end = DisplayedRanges[i + 1].start

\* ---------------------------------------------------------------- C10
\* the indices at which a run of equal kinds starts
RunStarts(u) == { i \in 1 .. Len(u) : i = 1 \/ u[i].usage # u[i - 1].usage }

\* the last index of the run starting at i
RunEnd(u, i) ==
  CHOOSE j \in i .. Len(u) :
    /\ \A k \in i .. j : u[k].usage = u[i].usage
    /\ (j = Len(u) \/ u[j + 1].usage # u[i].usage)

\* the k-th run start
NthRunStart(u, k) ==
  CHOOSE i \in RunStarts(u) : Cardinality({ x \in RunStarts(u) : x <= i }) = k

\* C10 (maximal runs): the displayed ranges are the maximal runs of equal
\* kind of the input, in order: one range per run, from the event id of the
\* run's first event to that of its last, with the run's kind; adjacent
\* ranges differ in kind; Scenario1 gives (10,12,Read),(15,20,Write),(21,21,Read).
C10_MaximalRuns ==
  LET R == DisplayedRanges
      u == CoalescedInput
  IN  /\ Len(R) = Cardinality(RunStarts(u))
      /\ \A k \in 1 .. Len(R) :
           R[k] = [start |-> u[NthRunStart(u, k)].eventID,
                   end |-> u[RunEnd(u, NthRunStart(u, k))].eventID,
                   use |-> u[NthRunStart(u, k)].usage]
      /\ \A k \in 1 .. Len(R) - 1 : R[k].use # R[k + 1].use
      /\ (shown # << >> /\ u = Scenario1)
           => R = << [start |-> 10, end |-> 12, use |-> "Read"],
                     [start |-> 15, end |-> 20, use |-> "Write"],
                     [start |-> 21, end |-> 21, use |-> "Read"] >>

\* the usage of Scenario1 displayed
C10_Witness ==
  /\ shown # << >>
  /\ shown[1].usage = Scenario1
  /\ Len(resourceUsage) = 3
\* ---------------------------------------------------------------- C11
\* the event ids of a usage list
EventIdsOf(u) == { u[i].eventID : i \in 1 .. Len(u) }

\* C11 (single kind): a non-empty fetched list whose events all have one
\* kind is displayed as exactly one range, from the smallest to the largest
\* event id of the list, with that kind.
C11_SingleKindOneRange ==
  LET R == DisplayedRanges
      u == CoalescedInput
  IN  (u # << >> /\ \A i \in 1 .. Len(u) : u[i].usage = u[1].usage)
        => /\ Len(R) = 1
           /\ \A e \in EventIdsOf(u) : R[1].start <= e /\ e <= R[1].end
           /\ R[1].start \in EventIdsOf(u)
           /\ R[1].end \in EventIdsOf(u)
           /\ R[1].use = u[1].usage

\* a displayed single-kind list of MaxLen events over several event ids
C11_Witness ==
  /\ shown # << >>
  /\ Len(shown[1].usage) >= 3
  /\ \A i \in 1 .. Len(shown[1].usage) : shown[1].usage[i].usage = "Write"
  /\ Cardinality(EventIdsOf(shown[1].usage)) >= 2
  /\ Len(resourceUsage) = 1

\* ---------------------------------------------------------------- C12
\* one single-event sample per displayed range, taken at its start or its end
SampleChoices == [1 .. Len(resourceUsage) -> {"start", "end"}]

SamplesOf(R, f) ==
  [i \in 1 .. Len(R) |->
     [eventID |-> IF f[i] = "start" THEN R[i].start ELSE R[i].end,
      usage |-> R[i].use]]

\* the ranges displayed when a sample list is combined into an empty tree
Recoalesced(samples) ==
  LET items == ItemsOf(samples)
  IN  [i \in 1 .. Len(items) |-> RangeOfItem(items[i])]

\* C12 as claimed: combining one sample per displayed range again gives the
\* same number of ranges with the same start and end each.
C12_RecoalesceSameBoundaries ==
  LET R == DisplayedRanges IN
  \A f \in SampleChoices :
    LET Q == Recoalesced(SamplesOf(R, f)) IN
    /\ Len(Q) = Len(R)
    /\ \A i \in 1 .. Len(R) : Q[i].start = R[i].start /\ Q[i].end = R[i].end

\* C12 amended: combining one sample per displayed range again gives the
\* same number of ranges, with the same kinds in the same order, each range
\* being the single event id of its sample; start and end are reproduced for
\* the ranges that span one event id.
C12_RecoalesceSameRuns ==
  LET R == DisplayedRanges IN
  \A f \in SampleChoices :
    LET S == SamplesOf(R, f)
        Q == Recoalesced(S)
    IN  /\ Len(Q) = Len(R)
        /\ \A i \in 1 .. Len(R) :
             /\ Q[i].use = R[i].use
             /\ Q[i].start = S[i].eventID
             /\ Q[i].end = S[i].eventID
             /\ R[i].start = R[i].end
                  => (Q[i].start = R[i].start /\ Q[i].end = R[i].end)

\* two ranges displayed, one of them spanning several event ids
C12_Witness ==
  /\ shown # << >>
  /\ Len(resourceUsage) >= 2
  /\ \E i \in 1 .. Len(resourceUsage) :
       DisplayedRanges[i].start < DisplayedRanges[i].end
\* ---------------------------------------------------------------- C13
\* the ranges of R that contain event id e
Containing(R, e) == { i \in 1 .. Len(R) : R[i].start <= e /\ e <= R[i].end }

\* the range the claim calls active: of the ranges containing e the one with
\* the smallest start (the first of them in the list), 0 when none contains e
ClaimedActive(R, e) ==
  IF Containing(R, e) = { }
    THEN 0
    ELSE CHOOSE i \in Containing(R, e) :
           \A j \in Containing(R, e) :
             R[i].start < R[j].start \/ (R[i].start = R[j].start /\ i <= j)

\* C13 (active range): after a position change to event id e, the active
\* item of the usage tree is the displayed range containing e with the
\* smallest start, and none when no displayed range contains e.
C13_ActiveRangeContainsPosition ==
  lastOp.op = "OnEventChanged"
    => ActiveUsageItem(resourceUsage, lastOp.id)
         = ClaimedActive(DisplayedRanges, lastOp.id)
\* ---------------------------------------------------------------- C14
\* C14 (initialisation chunks): while a resource is inspected, the
\* initialisation tree has one top-level item per chunk index of its
\* description, in order; an item reads the chunk table exactly when its
\* index is below the table size, and is the invalid placeholder otherwise.
C14_ChunkItemsBoundsChecked ==
  m_Resource # NoResource
    => LET chunks == Catalog[m_Resource].initialisationChunks
       IN  /\ Len(initChunks) = Len(chunks)
           /\ \A i \in 1 .. Len(chunks) :
                /\ initChunks[i].chunk = chunks[i]
                /\ initChunks[i].valid = (chunks[i] \in 0 .. NumChunks - 1)

\* a resource inspected whose description names chunk 7 and a chunk in bounds
C14_Witness ==
  /\ m_Resource # NoResource
  /\ \E i \in 1 .. Len(initChunks) : initChunks[i] = [valid |-> FALSE, chunk |-> 7]
  /\ \E i \in 1 .. Len(initChunks) : initChunks[i].valid

\* ---------------------------------------------------------------- C15
\* the related tree lists the parents of d in order, then its derived
\* resources in order
ShowsRelationsOf(d) ==
  /\ Len(relatedResources) = Len(d.parentResources) + Len(d.derivedResources)
  /\ \A i \in 1 .. Len(d.parentResources) :
       relatedResources[i] = [type |-> "Parent", id |-> d.parentResources[i]]
  /\ \A i \in 1 .. Len(d.derivedResources) :
       relatedResources[Len(d.parentResources) + i]
         = [type |-> "Derived", id |-> d.derivedResources[i]]

C16_WorkerOnlyComputes ==
  [][ /\ lastOp'.op = "ReplayInvoke"
           => /\ UNCHANGED << m_Resource, relatedResources, initChunks,
                              resourceUsage, shown >>
              /\ Cardinality(guiQueue') = Cardinality(guiQueue) + 1
              /\ Cardinality(replayQueue') = Cardinality(replayQueue) - 1
      /\ lastOp'.op = "GUIInvoke"
           => \E c \in guiQueue :
                /\ guiQueue' = guiQueue \ {c}
                /\ resourceUsage' = resourceUsage \o ItemsOf(c.usage) ]_vars

\* the replay thread has run a fetch with a non-empty usage list while
\* another completion was already displayed
C16_Witness ==
  /\ lastOp.op = "ReplayInvoke"
  /\ \E c \in guiQueue : c.usage # << >>
  /\ resourceUsage # << >>
\* ---------------------------------------------------------------- C17
\* C17 (the fetched usage is displayed in the end): once every fetch has
\* completed and a resource is still inspected (no Inspect of another id, no
\* close came after its Inspect), the usage tree is the combined usage of
\* the fetch issued for it, and nothing is left to change it.
C17_SettledShowsFetchedUsage ==
  (m_Resource # NoResource /\ replayQueue = { } /\ guiQueue = { })
    => \E i \in 1 .. Len(shown) :
         /\ shown[i].no = issued
         /\ shown[i].id = m_Resource
         /\ resourceUsage = ItemsOf(shown[i].usage)

\* ---------------------------------------------------------------- C18
\* C18 (one fetch displayed): the usage tree is empty or holds the combined
\* usage of one of the completions run since it was last cleared, never
\* those of two of them, also after on_resetName_clicked re-inspects the
\* resource while its earlier fetch is in flight.
C18_AtMostOneFetchDisplayed ==
  \/ resourceUsage = << >>
  \/ \E i \in 1 .. Len(shown) : resourceUsage = ItemsOf(shown[i].usage)

\* ---------------------------------------------------------------- C19
\* C19 (m_Resource has a description): between operations m_Resource is
\* "no resource" or the id of a resource with a description in the catalog
\* of the loaded capture.
C19_InspectedHasDescription ==
  m_Resource # NoResource => (loaded /\ m_Resource \in DOMAIN Catalog)

\* Inspect of an id without description while a resource was inspected
C19_Witness ==
  /\ lastOp.op = "Inspect"
  /\ lastOp.id # NoResource
  /\ lastOp.id \notin DOMAIN Catalog
  /\ lastOp.was # NoResource
  /\ m_Resource = NoResource

\* ---------------------------------------------------------------- C20
\* the fetches added by a step that called Inspect(id) with m_Resource = cur
FetchesAdded(cur, id) == IF id # cur THEN 1 ELSE 0

\* C20 (one fetch per differing Inspect): a call of Inspect(id) issues one
\* fetch for id when id differs from m_Resource at the call, with or
\* without a description for id, and none otherwise; no other step issues
\* a fetch. Inspect called by on_resetName_clicked finds m_Resource reset,
\* Inspect called by OnEventChanged finds id = m_Resource.
C20_OneFetchPerDifferingInspect ==
  [][ /\ lastOp'.op = "Inspect"
           => /\ issued' = issued + FetchesAdded(m_Resource, lastOp'.id)
              /\ replayQueue' \ replayQueue
                   = IF lastOp'.id # m_Resource
                       THEN { [no |-> issued', id |-> lastOp'.id] } ELSE { }
              /\ replayQueue \subseteq replayQueue'
      /\ lastOp'.op = "on_resetName_clicked"
           => /\ issued' = issued + FetchesAdded(NoResource, lastOp'.id)
              /\ replayQueue' \ replayQueue
                   = IF lastOp'.id # NoResource
                       THEN { [no |-> issued', id |-> lastOp'.id] } ELSE { }
              /\ replayQueue \subseteq replayQueue'
      /\ lastOp'.op \in {"OnEventChanged", "OnLogfileLoaded", "OnLogfileClosed",
                         "GUIInvoke"}
           => UNCHANGED << issued, replayQueue >>
      /\ lastOp'.op = "ReplayInvoke"
           => (issued' = issued /\ replayQueue' \subseteq replayQueue) ]_vars

\* the same id without a description inspected twice: two fetches for it
C20_Witness ==
  /\ lastOp.op = "Inspect"
  /\ lastOp.id # NoResource
  /\ lastOp.id \notin DOMAIN Catalog
  /\ lastOp.was = NoResource
  /\ Cardinality({ j \in replayQueue : j.id = lastOp.id }) = 2

====
